---- MODULE Spec2Model ----
(***************************************************************************)
(* A model of the image re-encoding pipeline of the file converter:        *)
(*   ImageConverter.batchProcess   (src/unnamed/part_002, lines 174-196)   *)
(*   ImageConverter.convertFormat  (src/unnamed/part_002, lines 64-127)    *)
(*   FileConverter.convertImageFile (src/unnamed/part_009, lines 572-618)  *)
(*   ImageConverter.compressImage  (src/unnamed/part_002, lines 153-171)   *)
(*   FileConverter.generateOutputFileName                                  *)
(*                                 (src/unnamed/part_009, lines 682-696)   *)
(*   DocumentConverter.escapeXml                                           *)
(*                   (src/assets/js/converters/document.js, lines 1084-1092) *)
(*   FileConverter.startConversion, removeFile, reset, processFiles        *)
(*                                              (src/unnamed/part_009)     *)
(*   LibraryLoader.loadLibrary, loadScript                                 *)
(*                                 (src/unnamed/part_001, lines 266-363)   *)
(* Each asynchronous function is cut at its suspension points (await, the  *)
(* image's load/error event, the toBlob callback); the code between two    *)
(* suspension points runs to completion and is one action.                 *)
(***************************************************************************)
EXTENDS Integers, Naturals, Sequences, FiniteSets, TLC

VARIABLES
    \* ---- ImageConverter.batchProcess ----
    files,        \* the `files` argument: a sequence of File objects
    onProgress,   \* TRUE iff the `onProgress` argument is supplied (not null)
    results,      \* the local array `results`
    i,            \* the loop variable `i` (0-based, as in the code)
    bpc,          \* position of the call: "loop", "await", "done", "thrown"
    inFlight,     \* indices whose processFunction promise is pending
    started,      \* history: indices passed to processFunction, in call order
    settled,      \* history: per input, "none" / "ok" / "err" (how its promise settled)
    calls,        \* history: the argument triples of the onProgress invocations
    \* ---- ImageConverter.convertFormat / FileConverter.convertImageFile ----
    entry,        \* which function was called: "none", "convertFormat", "convertImageFile"
    img,          \* the input file's image: natural width, height; whether it decodes
    outputFormat, \* the `outputFormat` argument
    quality,      \* options.quality in tenths (8 is 0.8), after the default is applied
    maxWidth,     \* options.maxWidth (convertFormat) or the maxWidth form field's
                  \* value, a character sequence (convertImageFile)
    maxHeight,    \* options.maxHeight
    backgroundColor, \* options.backgroundColor
    cpc,          \* position of the call: "idle", "decoding", "encoding",
                  \* "resolved", "rejected"
    canvas,       \* the canvas element's width and height attributes
    ops,          \* the drawing operations performed on the 2d context, in order
    objectURLs,   \* number of object URLs created and not revoked
    outcome,      \* what the returned promise settled with
    settlements,  \* history: the resolve / reject calls made on that promise
    \* ---- ImageConverter.compressImage ----
    fileDecodes,  \* whether the `file` argument decodes as an image
    targetSizeKB, \* the `targetSizeKB` argument
    maxIterations, \* the `maxIterations` argument, after its default
    curQuality,   \* the local `quality`, a double (see Dbl)
    iteration,    \* the local `iteration`
    zpc,          \* position of the call: "idle", "awaitLoop" (the await in the
                  \* loop), "awaitFinal" (the returned conversion), "returned", "rejected"
    conversions,  \* history: the convertFormat calls made, with their results
    returned,     \* index in `conversions` of the blob the call returned, 0 if none
    \* ---- FileConverter: naming the output of one file ----
    originalName, \* file.name, a sequence of characters
    selectValue,  \* the value of the #outputFormat select, a sequence of characters
    requested,    \* the `outputFormat` read by convertFile, None before it
    npc,          \* position: "idle", "converting", "named", "failed"
    outputName,   \* the `name` of the converted file, None without one
    \* ---- DocumentConverter.escapeXml ----
    text,         \* the `text` argument: a string (its characters), null or undefined
    escaped,      \* the string the call returned, as its characters
    epc,          \* position of the call: "idle", "returned"
    \* ---- FileConverter.startConversion and the events around it ----
    uploadedFiles, \* this.uploadedFiles: the names of the uploaded files, in order
    convertedFiles, \* this.convertedFiles: entries [file, isError]
    isConverting, \* this.isConverting
    formatState,  \* the #outputFormat select: "absent" (no options shown),
                  \* "empty" (placeholder selected), "chosen"
    convertBtnDisabled, \* this.convertBtn.disabled
    runs,         \* history: one record per startConversion invocation that
                  \* passed the isConverting guard, with its loop state
    uploads,      \* number of processFiles calls so far
    \* ---- LibraryLoader.loadLibrary and the script loads it starts ----
    loadedLibraries, \* this.loadedLibraries: a set of library names
    loadingPromises, \* this.loadingPromises: library name -> the promise of
                  \* its loadScript call, as an index into `scripts`; 0 for
                  \* a name without an entry
    scripts,      \* history: one record per loadScript call, with the state of
                  \* its promise, of its <script> element and of its timer
    windowGlobals, \* the libraries whose window[globalName] is set
    libraryCalls  \* history: one record per loadLibrary call, with its position

batchVars == <<files, onProgress, results, i, bpc, inFlight, started, settled, calls>>

convertVars == <<entry, img, outputFormat, quality, maxWidth, maxHeight,
                 backgroundColor, cpc, canvas, ops, objectURLs, outcome, settlements>>

compressVars == <<fileDecodes, targetSizeKB, maxIterations, curQuality, iteration,
                  zpc, conversions, returned>>

nameVars == <<originalName, selectValue, requested, npc, outputName>>

escapeVars == <<text, escaped, epc>>

runVars == <<uploadedFiles, convertedFiles, isConverting, formatState,
             convertBtnDisabled, runs, uploads>>

loaderVars == <<loadedLibraries, loadingPromises, scripts, windowGlobals, libraryCalls>>

vars == <<batchVars, convertVars, compressVars, nameVars, escapeVars, runVars, loaderVars>>

----------------------------------------------------------------------------
(* Bounds of the model *)

\* longest `files` array handed to batchProcess
MaxFiles == 3

\* the File.name values used for the inputs
FileNames == {"a.png", "b.jpg"}

\* largest natural width and height of an input image
MaxDim == 4

\* largest maxWidth / maxHeight of a request (the smallest is -1)
MaxLimit == 3

\* the quality values of a request, in tenths: below 0, the ends of [0,1],
\* inside it, above 1
QualityTenths == {-1, 0, 5, 10, 11}

\* the requested output formats
OutputFormats == {"jpeg", "jpg", "png", "webp"}

\* largest targetSizeKB handed to compressImage
MaxTargetKB == 1

\* largest explicit maxIterations handed to compressImage (the default is
\* used as well)
MaxIterationsArg == 3

\* blob sizes come in whole kilobytes, up to this many
MaxBlobKB == 2

\* no call of compressImage is followed beyond this many conversions
MaxConversions == 12

\* longest file name
MaxNameLen == 4

\* longest string handed to escapeXml
MaxTextLen == 3

\* most startConversion invocations followed
MaxRuns == 2

\* most processFiles calls followed
MaxUploads == 2

\* most loadLibrary calls followed
MaxCalls == 3

\* the names loadLibrary is called with: two keys of LibraryLoader.libraries
\* and one name that is not a key
LibraryNames == {"jszip", "sheetjs"}

CallNames == LibraryNames \cup {"nolib"}

\* the file lists a processFiles call may install
UploadLists == {<<"a">>, <<"a", "b">>}

\* the characters those strings are made of: the five that are escaped and one
\* that is not
TextChars == {"&", "<", ">", "\"", "'", "a"}

\* the characters file names are made of
NameChars == {"a", "."}

\* the values of the options of the #outputFormat select used here, the
\* placeholder option's empty value aside
Formats == {<<"p", "n", "g">>, <<"j", "p", "e", "g">>, <<"m", "d">>}

\* the values of the maxWidth form field read by convertImageFile
FieldValues == {<<>>, <<"a">>, <<"0">>, <<"1">>, <<"2">>, <<"3">>, <<"1", "0">>,
                <<"-", "1">>, <<"2", ".", "5">>, <<"2", "p", "x">>}

----------------------------------------------------------------------------
(* Values shared by the operations *)

\* null / undefined
None == <<>>

\* a number n as the value of an optional argument or of a parse
Some(n) == <<n>>

\* the string of an Error's message, as a short ASCII tag of the code's text
LoadFailed == "image load failed"
FormatFailed == "format conversion failed"
ImageFailed == "image conversion failed"

\* the promise returned by a conversion has not settled
Pending == [kind |-> "pending"]

\* no conversion call is modelled: the conversion variables stay at these values
ConvertIdle ==
    /\ entry = "none"
    /\ img = [width |-> 1, height |-> 1, decodable |-> TRUE]
    /\ outputFormat = "png"
    /\ quality = 8
    /\ maxWidth = None
    /\ maxHeight = None
    /\ backgroundColor = None
    /\ cpc = "idle"
    /\ canvas = [width |-> 300, height |-> 150]
    /\ ops = <<>>
    /\ objectURLs = 0
    /\ outcome = Pending
    /\ settlements = <<>>

\* A double x of the quality arithmetic is the pair [t, d] of small integers
\* with x = (t * 2^56 + d) / (10 * 2^56): t tenths plus d units of 2^-56 / 10.
\* Every double that is a multiple of 2^-56 has this form.
Dbl(t, d) == [t |-> t, d |-> d]

\* the literal 0.1: the double nearest to 1/10 is (2^56 + 4) / (10 * 2^56)
Tenth == Dbl(1, 4)

\* the literal 0.8: the double nearest to 8/10 is (8 * 2^56 + 32) / (10 * 2^56)
InitialQuality == Dbl(8, 32)

\* no compressImage call is modelled: its variables stay at these values
CompressIdle ==
    /\ fileDecodes = TRUE
    /\ targetSizeKB = 0
    /\ maxIterations = 0
    /\ curQuality = InitialQuality
    /\ iteration = 0
    /\ zpc = "idle"
    /\ conversions = <<>>
    /\ returned = 0

\* no file is being named: the naming variables stay at these values
NameIdle ==
    /\ originalName = <<"a">>
    /\ selectValue = <<"p", "n", "g">>
    /\ requested = None
    /\ npc = "idle"
    /\ outputName = None

\* no escapeXml call is modelled: its variables stay at these values
EscapeIdle ==
    /\ text = [kind |-> "string", chars |-> <<>>]
    /\ escaped = <<>>
    /\ epc = "idle"

\* a FileConverter as constructed, before any event: nothing uploaded, no
\* options shown, no run
RunIdle ==
    /\ uploadedFiles = <<>>
    /\ convertedFiles = <<>>
    /\ isConverting = FALSE
    /\ formatState = "absent"
    /\ convertBtnDisabled = TRUE
    /\ runs = <<>>
    /\ uploads = 0

\* a LibraryLoader as constructed, never called
LoaderIdle ==
    /\ loadedLibraries = {}
    /\ loadingPromises = [n \in {"jszip", "sheetjs", "nolib"} |-> 0]
    /\ scripts = <<>>
    /\ windowGlobals = {}
    /\ libraryCalls = <<>>

----------------------------------------------------------------------------
(* ImageConverter.batchProcess *)

\* A File of the batch; only its name is read by batchProcess.
File(n) == [name |-> n]

\* `錯誤: ${files[i].name}`: the label reported for a failed item. The code's
\* prefix is the two CJK characters for "error" followed by ": "; it is
\* written here in ASCII.
ErrorLabel(name) == "Error: " \o name

\* { success: true, result, file: files[i] }; the file is identified by its index
SuccessEntry(idx) == [success |-> TRUE, file |-> idx]

\* { success: false, error, file: files[i] }
FailureEntry(idx) == [success |-> FALSE, file |-> idx]

\* A variant of ProgressCall that reports the 0-based loop index.
ProgressCallZeroBased(idx, label) == <<idx, Len(files), label>>

\* the arguments of one onProgress(i + 1, total, label) invocation
ProgressCall(idx, label) == <<idx + 1, Len(files), label>>

\* A variant of Launch that fires the conversions of all remaining inputs at once.
LaunchAllRemaining(pending, idx) == pending \cup (idx .. (Len(files) - 1))

\* processFunction(files[i], i) is called: one more promise is pending
Launch(pending, idx) == pending \cup {idx}

\* no batchProcess call is modelled: the batch variables stay at these values
BatchIdle ==
    /\ files = <<>>
    /\ onProgress = FALSE
    /\ results = <<>>
    /\ i = 0
    /\ bpc = "idle"
    /\ inFlight = {}
    /\ started = <<>>
    /\ settled = <<>>
    /\ calls = <<>>

BatchInit ==
    /\ files \in UNION {[1..n -> {File(nm) : nm \in FileNames}] : n \in 0..MaxFiles}
    /\ onProgress \in BOOLEAN
    /\ results = <<>>
    /\ i = 0
    /\ bpc = "loop"
    /\ inFlight = {}
    /\ started = <<>>
    /\ settled = [k \in 1..Len(files) |-> "none"]
    /\ calls = <<>>
    /\ ConvertIdle /\ LoaderIdle /\ RunIdle /\ EscapeIdle
    /\ CompressIdle
    /\ NameIdle

\* for-loop test true: processFunction(files[i], i) is called and awaited
BatchStartItem ==
    /\ bpc = "loop"
    /\ i < Len(files)
    /\ inFlight' = Launch(inFlight, i)
    /\ started' = Append(started, i)
    /\ bpc' = "await"
    /\ UNCHANGED <<files, onProgress, results, i, settled, calls, convertVars, compressVars, nameVars, escapeVars, runVars, loaderVars>>

\* for-loop test false: `return results`
BatchReturn ==
    /\ bpc = "loop"
    /\ i >= Len(files)
    /\ bpc' = "done"
    /\ UNCHANGED <<files, onProgress, results, i, inFlight, started, settled, calls, convertVars, compressVars, nameVars, escapeVars, runVars, loaderVars>>

\* The awaited promise fulfils. The rest of the try block runs: the success
\* entry is pushed and onProgress, if supplied, is invoked. If that invocation
\* throws (throws1) the catch block runs as well: a failure entry is pushed and
\* onProgress is invoked again; if that one throws too (throws2) the error
\* leaves batchProcess.
ProcessResolves ==
    /\ bpc = "await"
    /\ i \in inFlight
    /\ inFlight' = inFlight \ {i}
    /\ settled' = [settled EXCEPT ![i + 1] = "ok"]
    /\ \E throws1 \in BOOLEAN, throws2 \in BOOLEAN :
         LET name == files[i + 1].name
             pushed == Append(results, SuccessEntry(i))
         IN  IF ~onProgress
             THEN /\ results' = pushed
                  /\ calls' = calls
                  /\ i' = i + 1
                  /\ bpc' = "loop"
             ELSE IF ~throws1
             THEN /\ results' = pushed
                  /\ calls' = Append(calls, ProgressCall(i, name))
                  /\ i' = i + 1
                  /\ bpc' = "loop"
             ELSE /\ results' = Append(pushed, FailureEntry(i))
                  /\ calls' = Append(Append(calls, ProgressCall(i, name)),
                                     ProgressCall(i, ErrorLabel(name)))
                  /\ IF throws2
                     THEN i' = i /\ bpc' = "thrown"
                     ELSE i' = i + 1 /\ bpc' = "loop"
    /\ UNCHANGED <<files, onProgress, started, convertVars, compressVars, nameVars, escapeVars, runVars, loaderVars>>

\* The awaited promise rejects (or processFunction throws). The catch block
\* runs: the failure entry is pushed and onProgress, if supplied, is invoked;
\* if it throws (throws1) the error leaves batchProcess.
ProcessRejects ==
    /\ bpc = "await"
    /\ i \in inFlight
    /\ inFlight' = inFlight \ {i}
    /\ settled' = [settled EXCEPT ![i + 1] = "err"]
    /\ results' = Append(results, FailureEntry(i))
    /\ \E throws1 \in BOOLEAN :
         LET name == files[i + 1].name
         IN  IF ~onProgress
             THEN /\ calls' = calls
                  /\ i' = i + 1
                  /\ bpc' = "loop"
             ELSE /\ calls' = Append(calls, ProgressCall(i, ErrorLabel(name)))
                  /\ IF throws1
                     THEN i' = i /\ bpc' = "thrown"
                     ELSE i' = i + 1 /\ bpc' = "loop"
    /\ UNCHANGED <<files, onProgress, started, convertVars, compressVars, nameVars, escapeVars, runVars, loaderVars>>

NextBatch ==
    \/ BatchStartItem
    \/ BatchReturn
    \/ ProcessResolves
    \/ ProcessRejects

SpecBatch == BatchInit /\ [][NextBatch]_vars

----------------------------------------------------------------------------
(* Properties of batchProcess, checked under SpecBatch *)

\* the indices passed to processFunction so far
Attempted == {started[k] : k \in 1..Len(started)}

\* C1: when batchProcess returns, the outcome list has exactly one entry per
\* input, entry k is the outcome of input k, and no input has both a success
\* entry and a failure entry -- whatever the conversions and the progress
\* observer do.
C1_OneOutcomePerInput ==
    bpc = "done" =>
        /\ Len(results) = Len(files)
        /\ \A k \in 1..Len(files) : results[k].file = k - 1
        /\ \A a \in 1..Len(results), b \in 1..Len(results) :
             results[a].file = results[b].file => results[a].success = results[b].success

\* C2: a failing input does not stop the batch: when the call has ended, every
\* input after a failed one was attempted; and the returned outcome at each
\* index is a failure exactly when that input's own conversion failed.
C2_FailureDoesNotStopBatch ==
    /\ bpc \in {"done", "thrown"} =>
         \A j \in 1..Len(files) : settled[j] = "err" =>
             \A k \in (j + 1)..Len(files) : (k - 1) \in Attempted
    /\ bpc = "done" =>
         \A k \in 1..Len(files) :
             /\ k <= Len(results)
             /\ results[k].success = (settled[k] = "ok")

\* C3: with a progress observer supplied, a completed run has invoked it
\* exactly Len(files) times, with first arguments 1, 2, ..., Len(files).
C3_ProgressOncePerInput ==
    (bpc = "done" /\ onProgress) =>
        /\ Len(calls) = Len(files)
        /\ \A k \in 1..Len(calls) : calls[k][1] = k

\* the label the code reports for input j once its conversion has settled
ReportedLabel(j) ==
    IF settled[j] = "ok" THEN files[j].name ELSE ErrorLabel(files[j].name)

\* C4 (as stated): once input j is processed, success or failure, onProgress
\* has been invoked with (j, total, files[j].name), before the next input is
\* started.
C4_ProgressCarriesFileName ==
    onProgress =>
        \A j \in 1..Len(files) : settled[j] # "none" =>
            \E c \in 1..Len(calls) : calls[c] = <<j, Len(files), files[j].name>>

\* C4 (amended): once input j is processed, onProgress has been invoked with
\* (j, total, label) before the next input is started, where label is the
\* file's name after a success and the name with the error prefix after a
\* failure.
C4_ProgressAfterEachItem ==
    onProgress =>
        /\ \A j \in 1..Len(files) : settled[j] # "none" =>
             \E c \in 1..Len(calls) : calls[c] = <<j, Len(files), ReportedLabel(j)>>
        /\ \A idx \in Attempted : \A j \in 1..idx :
             \E c \in 1..Len(calls) : calls[c] = <<j, Len(files), ReportedLabel(j)>>

\* a run with an observer has reported a failure and then a success
C4_Witness ==
    /\ bpc = "done"
    /\ onProgress
    /\ Len(files) = 3
    /\ settled = <<"ok", "err", "ok">>
    /\ calls = << <<1, 3, files[1].name>>,
                  <<2, 3, ErrorLabel(files[2].name)>>,
                  <<3, 3, files[3].name>> >>

\* C5: no error leaves batchProcess: the call never ends by rejecting.
C5_NoErrorEscapes == bpc # "thrown"

\* C6: inputs are converted in input order and one at a time: at most one
\* conversion is pending, processFunction has been called for indices
\* 0, 1, 2, ... in that order, and every input before an attempted one has
\* already settled.
C6_OneConversionAtATime ==
    /\ Cardinality(inFlight) <= 1
    /\ \A k \in 1..Len(started) : started[k] = k - 1
    /\ \A idx \in Attempted : \A j \in 1..idx : settled[j] # "none"

\* the third input is being converted after a success and a failure
C6_Witness ==
    /\ bpc = "await"
    /\ inFlight = {2}
    /\ started = <<0, 1, 2>>
    /\ settled = <<"ok", "err", "none">>

----------------------------------------------------------------------------
(* Arithmetic of the target size.  JavaScript numbers are doubles; width and   *)
(* height are kept as exact fractions n/d with d > 0.  The operands of every   *)
(* product are integers far below 2^53 and every quotient is truncated only    *)
(* when it is assigned to a canvas attribute.  For natural sizes and limits    *)
(* up to 6 the truncated fractions equal the truncated doubles of the code;    *)
(* the first size at which the doubles differ is 14x2 with limits 9 and 1      *)
(* (7 * 1 / (2 * 9 / 14) is 6.999999999999999 in doubles).                     *)

Rat(n, d) == [n |-> n, d |-> d]

\* r > k
RatGtInt(r, k) == r.n > k * r.d

\* r * k
RatMulInt(r, k) == Rat(r.n * k, r.d)

\* a / b for b # 0
RatDiv(a, b) ==
    LET n == a.n * b.d
        d == a.d * b.n
    IN  IF d < 0 THEN Rat(-n, -d) ELSE Rat(n, d)

\* the integer part of r (truncation toward zero)
Trunc(r) == IF r.n >= 0 THEN r.n \div r.d ELSE -((-r.n) \div r.d)

\* JavaScript truthiness of an optional number: null and 0 are falsy
Truthy(opt) == opt # None /\ opt[1] # 0

\* Assignment of a number to canvas.width / canvas.height, an `unsigned long`
\* attribute that reflects a content attribute: the value is truncated to an
\* integer, and a result outside 0 .. 2^31-1 (any negative integer wraps above
\* that range) sets the attribute's default instead.
CanvasDim(r, default) ==
    LET t == Trunc(r)
    IN  IF t < 0 THEN default ELSE t

\* A variant of ClampWidth that compares without testing that maxWidth is set:
\* a null limit then counts as 0.
ClampWidthNoNullTest(dims, maxW) ==
    LET W == IF maxW = None THEN 0 ELSE maxW[1]
    IN  IF RatGtInt(dims.width, W)
        THEN [width |-> Rat(W, 1),
              height |-> RatDiv(RatMulInt(dims.height, W), dims.width)]
        ELSE dims

\* A variant of ClampWidth that narrows the width and leaves the height alone.
ClampWidthKeepHeight(dims, maxW) ==
    IF Truthy(maxW) /\ RatGtInt(dims.width, maxW[1])
    THEN [width |-> Rat(maxW[1], 1), height |-> dims.height]
    ELSE dims

\* if (maxWidth && width > maxWidth) { height = (height * maxWidth) / width;
\*                                     width = maxWidth; }
ClampWidth(dims, maxW) ==
    IF Truthy(maxW) /\ RatGtInt(dims.width, maxW[1])
    THEN [width |-> Rat(maxW[1], 1),
          height |-> RatDiv(RatMulInt(dims.height, maxW[1]), dims.width)]
    ELSE dims

\* A variant of ClampHeight that scales the width the wrong way round.
ClampHeightInverted(dims, maxH) ==
    IF Truthy(maxH) /\ RatGtInt(dims.height, maxH[1])
    THEN [width |-> RatDiv(RatMulInt(dims.width, dims.height.n), Rat(maxH[1] * dims.height.d, 1)),
          height |-> Rat(maxH[1], 1)]
    ELSE dims

\* if (maxHeight && height > maxHeight) { width = (width * maxHeight) / height;
\*                                        height = maxHeight; }
ClampHeight(dims, maxH) ==
    IF Truthy(maxH) /\ RatGtInt(dims.height, maxH[1])
    THEN [width |-> RatDiv(RatMulInt(dims.width, maxH[1]), dims.height),
          height |-> Rat(maxH[1], 1)]
    ELSE dims

\* let { width, height } = img, then the two clamps in the code's order
TargetSize(image, maxW, maxH) ==
    ClampHeight(ClampWidth([width |-> Rat(image.width, 1),
                            height |-> Rat(image.height, 1)], maxW), maxH)

\* canvas.width = width; canvas.height = height (defaults 300 and 150)
SizedCanvas(dims) ==
    [width |-> CanvasDim(dims.width, 300), height |-> CanvasDim(dims.height, 150)]

\* The type of the blob toBlob produces for `image/${outputFormat}`: a type the
\* encoder does not support is encoded as PNG.
BlobType(format) ==
    IF format \in {"jpeg", "png", "webp"} THEN "image/" \o format ELSE "image/png"

\* the Blob handed to resolve: the encoded canvas
Blob(cv, format) ==
    [kind |-> "blob", width |-> cv.width, height |-> cv.height, type |-> BlobType(format)]

\* the Error handed to reject
Failure(message) == [kind |-> "error", message |-> message]

\* the message of an exception thrown while the canvas is drawn on
DrawFailed == "drawing failed"

\* What can go wrong in the load handler's try block: nothing; the 2d context
\* is missing, so the first access to it throws; drawImage throws.
Faults == {"none", "context", "drawImage"}

\* A variant of DrawOps that fills the background whatever the output format.
DrawOpsFillAnyFormat(background, format) ==
    (IF background # None THEN <<"fillRect">> ELSE <<>>) \o <<"drawImage">>

\* The drawing operations of the load handler, in the code's order: fillRect
\* when a background colour is given and the format is jpeg or jpg, then
\* drawImage.
DrawOps(background, format) ==
    (IF background # None /\ format \in {"jpeg", "jpg"}
     THEN <<"fillRect">> ELSE <<>>) \o <<"drawImage">>

\* the operations of `planned` completed before the fault strikes
OpsUntil(planned, fault) ==
    CASE fault = "none" -> planned
      [] fault = "context" -> <<>>
      [] fault = "drawImage" -> SubSeq(planned, 1, Len(planned) - 1)

\* A variant of Caught without the catch block: the exception leaves the load
\* handler and the promise is never settled.
Uncaught(message) ==
    [cpc |-> "escaped", outcome |-> Pending, settlements |-> <<>>]

\* catch (error) { reject(error); }
Caught(message) ==
    [cpc |-> "rejected", outcome |-> Failure(message), settlements |-> <<"reject">>]

\* canvas.toBlob yields null for a canvas without pixels
NoPixels(cv) == cv.width = 0 \/ cv.height = 0

----------------------------------------------------------------------------
(* ImageConverter.convertFormat *)

\* the destructuring default `quality = 0.8`
QualityOrDefault(opt) == IF opt = None THEN 8 ELSE opt[1]

Limits == {None} \cup {Some(n) : n \in -1..MaxLimit}

\* convertFormat(file, outputFormat, options) up to the return of the promise:
\* the options are destructured, the Image and the canvas are created, the
\* handlers are set and img.src is assigned an object URL of the file, which
\* starts the decoding.
ConvertFormatCall ==
    /\ cpc = "idle"
    /\ entry' = "convertFormat"
    /\ \E w \in 1..MaxDim, h \in 1..MaxDim, dec \in BOOLEAN :
         img' = [width |-> w, height |-> h, decodable |-> dec]
    /\ outputFormat' \in OutputFormats
    /\ \E q \in {None} \cup {Some(t) : t \in QualityTenths} :
         quality' = QualityOrDefault(q)
    /\ maxWidth' \in Limits
    /\ maxHeight' \in Limits
    /\ backgroundColor' \in {None, <<"#ffffff">>}
    /\ canvas' = [width |-> 300, height |-> 150]
    /\ ops' = <<>>
    /\ objectURLs' = objectURLs + 1
    /\ outcome' = Pending
    /\ settlements' = <<>>
    /\ cpc' = "decoding"
    /\ UNCHANGED <<batchVars, compressVars, nameVars, escapeVars, runVars, loaderVars>>

\* img.onload: the target size is computed, the canvas is sized, the background
\* is filled for jpeg/jpg, the image is drawn and toBlob is called.
ConvertFormatOnLoad ==
    /\ cpc = "decoding"
    /\ entry = "convertFormat"
    /\ img.decodable
    /\ canvas' = SizedCanvas(TargetSize(img, maxWidth, maxHeight))
    /\ \E fault \in Faults :
         LET done == OpsUntil(DrawOps(backgroundColor, outputFormat), fault)
         IN  /\ ops' = done
             /\ IF fault = "none"
                THEN cpc' = "encoding" /\ outcome' = outcome /\ settlements' = settlements
                ELSE /\ cpc' = Caught(DrawFailed).cpc
                     /\ outcome' = Caught(DrawFailed).outcome
                     /\ settlements' = settlements \o Caught(DrawFailed).settlements
    /\ UNCHANGED <<batchVars, compressVars, nameVars, entry, img, outputFormat, quality, maxWidth, maxHeight,
                   backgroundColor, objectURLs, escapeVars, runVars, loaderVars>>

\* the toBlob callback: resolve(blob), or reject when blob is null (a canvas
\* without pixels, or the encoder failed)
ConvertFormatToBlob ==
    /\ cpc = "encoding"
    /\ entry = "convertFormat"
    /\ \E encoderFails \in BOOLEAN :
         IF NoPixels(canvas) \/ encoderFails
         THEN /\ outcome' = Failure(FormatFailed)
              /\ settlements' = Append(settlements, "reject")
              /\ cpc' = "rejected"
         ELSE /\ outcome' = Blob(canvas, outputFormat)
              /\ settlements' = Append(settlements, "resolve")
              /\ cpc' = "resolved"
    /\ UNCHANGED <<batchVars, compressVars, nameVars, entry, img, outputFormat, quality, maxWidth, maxHeight,
                   backgroundColor, canvas, ops, objectURLs, escapeVars, runVars, loaderVars>>

\* img.onerror: the file does not decode as an image
ConvertFormatOnError ==
    /\ cpc = "decoding"
    /\ entry = "convertFormat"
    /\ ~img.decodable
    /\ outcome' = Failure(LoadFailed)
    /\ settlements' = Append(settlements, "reject")
    /\ cpc' = "rejected"
    /\ UNCHANGED <<batchVars, compressVars, nameVars, entry, img, outputFormat, quality, maxWidth, maxHeight,
                   backgroundColor, canvas, ops, objectURLs, escapeVars, runVars, loaderVars>>

----------------------------------------------------------------------------
(* FileConverter.convertImageFile *)

DigitChars == {"0", "1", "2", "3", "4", "5", "6", "7", "8", "9"}

DigitValue(c) == CHOOSE d \in 0..9 : <<"0", "1", "2", "3", "4", "5", "6", "7", "8", "9">>[d + 1] = c

\* the value of the leading run of digits of s, continuing from acc
RECURSIVE ParseDigits(_, _)
ParseDigits(s, acc) ==
    IF s = <<>> \/ Head(s) \notin DigitChars
    THEN acc
    ELSE ParseDigits(Tail(s), 10 * acc + DigitValue(Head(s)))

\* parseInt(s): an optional sign, then the leading digits; NaN (None) without a digit
ParseInt(s) ==
    LET signed == s # <<>> /\ Head(s) \in {"-", "+"}
        body == IF signed THEN Tail(s) ELSE s
    IN  IF body = <<>> \/ Head(body) \notin DigitChars
        THEN None
        ELSE Some((IF Head(s) = "-" THEN -1 ELSE 1) * ParseDigits(body, 0))

\* const maxW = parseInt(maxWidth) || null
MaxW(field) == IF Truthy(ParseInt(field)) THEN ParseInt(field) ELSE None

\* if (maxW && width > maxW) { height = (height * maxW) / width; width = maxW; }
ClampToMaxW(dims, maxW) ==
    IF Truthy(maxW) /\ RatGtInt(dims.width, maxW[1])
    THEN [width |-> Rat(maxW[1], 1),
          height |-> RatDiv(RatMulInt(dims.height, maxW[1]), dims.width)]
    ELSE dims

\* convertImageFile(file, outputFormat) up to the return of the promise: the
\* form fields are read, the Image and the canvas are created and img.src is
\* assigned an object URL of the file.
ConvertImageFileCall ==
    /\ cpc = "idle"
    /\ entry' = "convertImageFile"
    /\ \E w \in 1..MaxDim, h \in 1..MaxDim, dec \in BOOLEAN :
         img' = [width |-> w, height |-> h, decodable |-> dec]
    /\ outputFormat' \in OutputFormats
    /\ \E q \in {None} \cup {Some(t) : t \in QualityTenths} :
         quality' = QualityOrDefault(q)
    /\ maxWidth' \in FieldValues
    /\ maxHeight' = None
    /\ backgroundColor' = None
    /\ canvas' = [width |-> 300, height |-> 150]
    /\ ops' = <<>>
    /\ objectURLs' = objectURLs + 1
    /\ outcome' = Pending
    /\ settlements' = <<>>
    /\ cpc' = "decoding"
    /\ UNCHANGED <<batchVars, compressVars, nameVars, escapeVars, runVars, loaderVars>>

\* img.onload of convertImageFile
ConvertImageFileOnLoad ==
    /\ cpc = "decoding"
    /\ entry = "convertImageFile"
    /\ img.decodable
    /\ canvas' = SizedCanvas(ClampToMaxW([width |-> Rat(img.width, 1),
                                          height |-> Rat(img.height, 1)],
                                         MaxW(maxWidth)))
    /\ \E fault \in Faults :
         /\ ops' = OpsUntil(<<"drawImage">>, fault)
         /\ IF fault = "none"
            THEN cpc' = "encoding" /\ outcome' = outcome /\ settlements' = settlements
            ELSE /\ cpc' = Caught(DrawFailed).cpc
                 /\ outcome' = Caught(DrawFailed).outcome
                 /\ settlements' = settlements \o Caught(DrawFailed).settlements
    /\ UNCHANGED <<batchVars, compressVars, nameVars, entry, img, outputFormat, quality, maxWidth, maxHeight,
                   backgroundColor, objectURLs, escapeVars, runVars, loaderVars>>

\* the toBlob callback of convertImageFile
ConvertImageFileToBlob ==
    /\ cpc = "encoding"
    /\ entry = "convertImageFile"
    /\ \E encoderFails \in BOOLEAN :
         IF NoPixels(canvas) \/ encoderFails
         THEN /\ outcome' = Failure(ImageFailed)
              /\ settlements' = Append(settlements, "reject")
              /\ cpc' = "rejected"
         ELSE /\ outcome' = Blob(canvas, outputFormat)
              /\ settlements' = Append(settlements, "resolve")
              /\ cpc' = "resolved"
    /\ UNCHANGED <<batchVars, compressVars, nameVars, entry, img, outputFormat, quality, maxWidth, maxHeight,
                   backgroundColor, canvas, ops, objectURLs, escapeVars, runVars, loaderVars>>

\* img.onerror of convertImageFile
ConvertImageFileOnError ==
    /\ cpc = "decoding"
    /\ entry = "convertImageFile"
    /\ ~img.decodable
    /\ outcome' = Failure(LoadFailed)
    /\ settlements' = Append(settlements, "reject")
    /\ cpc' = "rejected"
    /\ UNCHANGED <<batchVars, compressVars, nameVars, entry, img, outputFormat, quality, maxWidth, maxHeight,
                   backgroundColor, canvas, ops, objectURLs, escapeVars, runVars, loaderVars>>

ConvertInit == BatchIdle /\ ConvertIdle /\ LoaderIdle /\ RunIdle /\ EscapeIdle /\ CompressIdle /\ NameIdle

NextConvert ==
    \/ ConvertFormatCall
    \/ ConvertFormatOnLoad
    \/ ConvertFormatToBlob
    \/ ConvertFormatOnError
    \/ ConvertImageFileCall
    \/ ConvertImageFileOnLoad
    \/ ConvertImageFileToBlob
    \/ ConvertImageFileOnError

SpecConvert == ConvertInit /\ [][NextConvert]_vars

----------------------------------------------------------------------------
(* Properties of convertFormat and convertImageFile, checked under SpecConvert *)

\* the promise of the call has settled
Settled == cpc \in {"resolved", "rejected"}

\* the image's load handler has run: the canvas is sized and the image drawn
Drawn == ops # <<>>

\* the call failed with the kind InvalidRequest
RejectedAsInvalid ==
    cpc = "rejected" /\ outcome.kind = "error" /\ outcome.message = "InvalidRequest"

\* C7: a convertFormat call whose quality is outside [0,1] never starts
\* decoding the image (no object URL is handed to the Image, the call is
\* never waiting for the decoder or the encoder) and settles only as a
\* failure of kind InvalidRequest.
C7_QualityOutOfRangeRejected ==
    (entry = "convertFormat" /\ (quality < 0 \/ quality > 10)) =>
        /\ objectURLs = 0
        /\ cpc \notin {"decoding", "encoding"}
        /\ Settled => RejectedAsInvalid

\* a maximum dimension that is set and not positive
NonPositive(limit) == limit # None /\ limit[1] <= 0

\* C8: a convertFormat call with a non-positive maxWidth or maxHeight is
\* rejected with a failure of kind InvalidRequest instead of being converted
\* (stated for images that decode, whose only ground for rejection is the
\* request).
C8_NonPositiveLimitRejected ==
    (entry = "convertFormat" /\ img.decodable /\ Settled
        /\ (NonPositive(maxWidth) \/ NonPositive(maxHeight))) =>
        RejectedAsInvalid

\* C9: with neither maxWidth nor maxHeight set, a decodable image is drawn on
\* a canvas of its natural width and height, and the blob it is converted to
\* has these dimensions.
C9_UnsetLimitsKeepSize ==
    (entry = "convertFormat" /\ maxWidth = None /\ maxHeight = None) =>
        /\ Drawn => (canvas.width = img.width /\ canvas.height = img.height)
        /\ cpc = "resolved" =>
             (outcome.width = img.width /\ outcome.height = img.height)

\* a 3x2 image was converted without limits
C9_Witness ==
    /\ entry = "convertFormat"
    /\ maxWidth = None /\ maxHeight = None
    /\ cpc = "resolved"
    /\ img.width = 3 /\ img.height = 2
    /\ outcome.kind = "blob" /\ outcome.width = 3 /\ outcome.height = 2

\* The maxWidth W of the current request when the request is one C10 is about:
\* W is a positive integer, no maxHeight is set and the image is wider than W.
\* None for every other request.
WidthLimit ==
    LET W == IF entry = "convertFormat" /\ maxHeight = None THEN maxWidth
             ELSE IF entry = "convertImageFile" THEN MaxW(maxWidth)
             ELSE None
    IN  IF W # None /\ W[1] > 0 /\ img.width > W[1] THEN W ELSE None

\* h * W / w rounded to the nearest integer (halves up, as Math.round)
RoundedHeight(W) == (2 * img.height * W + img.width) \div (2 * img.width)

\* h * W / w with its fraction dropped
TruncatedHeight(W) == (img.height * W) \div img.width

\* C10 (as stated): for an image wider than maxWidth = W, maxHeight unset, the
\* output has width W and height round(h * W / w).
C10_HeightIsRounded ==
    (WidthLimit # None /\ cpc = "resolved") =>
        /\ outcome.width = WidthLimit[1]
        /\ outcome.height = RoundedHeight(WidthLimit[1])

\* C10 (amended): for an image wider than maxWidth = W, W a positive integer
\* and maxHeight unset, the canvas the image is drawn on, and the blob of a
\* successful conversion, have width W and height floor(h * W / w): the
\* fraction of the scaled height is dropped, not rounded.
C10_HeightIsTruncated ==
    WidthLimit # None =>
        /\ Drawn =>
             /\ canvas.width = WidthLimit[1]
             /\ canvas.height = TruncatedHeight(WidthLimit[1])
        /\ cpc = "resolved" =>
             /\ outcome.width = WidthLimit[1]
             /\ outcome.height = TruncatedHeight(WidthLimit[1])

\* a 4x3 image converted with maxWidth 2 came out 2x1 (3 * 2 / 4 = 1.5)
C10_Witness ==
    /\ entry = "convertFormat"
    /\ maxWidth = Some(2) /\ maxHeight = None
    /\ img.width = 4 /\ img.height = 3
    /\ cpc = "resolved"
    /\ outcome.kind = "blob" /\ outcome.width = 2 /\ outcome.height = 1

\* the image a conversion's output decodes to: the canvas it was encoded from
OutputImage == [width |-> canvas.width, height |-> canvas.height, decodable |-> TRUE]

\* C11: dimension clamping is idempotent: the target-size computation applied
\* to the dimensions it produced, with the same limits, yields those same
\* dimensions.
C11_ClampIdempotent ==
    (entry = "convertFormat" /\ Drawn) =>
        SizedCanvas(TargetSize(OutputImage, maxWidth, maxHeight)) = canvas

\* both limits are set, to positive numbers
BothLimitsPositive ==
    /\ maxWidth # None /\ maxWidth[1] > 0
    /\ maxHeight # None /\ maxHeight[1] > 0

\* C21: for every natural size and every positive maxWidth and maxHeight set
\* together, the two-pass clamp yields a target size, and a canvas, of width
\* at most maxWidth and height at most maxHeight.
C21_WithinBothLimits ==
    (entry = "convertFormat" /\ BothLimitsPositive) =>
        /\ ~RatGtInt(TargetSize(img, maxWidth, maxHeight).width, maxWidth[1])
        /\ ~RatGtInt(TargetSize(img, maxWidth, maxHeight).height, maxHeight[1])
        /\ Drawn => (canvas.width <= maxWidth[1] /\ canvas.height <= maxHeight[1])

\* a 4x4 image with maxWidth 3 and maxHeight 2 went through both passes
\* (4x4 -> 3x3 -> 2x2) and was drawn
C21_Witness ==
    /\ entry = "convertFormat"
    /\ img.width = 4 /\ img.height = 4
    /\ maxWidth = Some(3) /\ maxHeight = Some(2)
    /\ Drawn
    /\ canvas = [width |-> 2, height |-> 2]

\* C22: a conversion never enlarges an image: the canvas the image is drawn
\* on, and so the output, is at most as wide and at most as high as the
\* natural size, for every request.
C22_NeverEnlarges ==
    Drawn => (canvas.width <= img.width /\ canvas.height <= img.height)

\* the positions of an operation in the drawing history
Positions(op) == {k \in 1..Len(ops) : ops[k] = op}

\* the request asks for a background and the format is jpeg or jpg
WantsBackground == backgroundColor # None /\ outputFormat \in {"jpeg", "jpg"}

\* C12: convertFormat fills the canvas with the background colour exactly when
\* a backgroundColor is given and the output format is jpeg or jpg, and the
\* fill comes before the image is drawn; for png and webp, or without a
\* backgroundColor, nothing is filled.
C12_FillBeforeDrawForJpeg ==
    entry = "convertFormat" =>
        /\ Positions("fillRect") # {} => WantsBackground
        /\ Positions("drawImage") # {} =>
             /\ (Positions("fillRect") # {} <=> WantsBackground)
             /\ \A f \in Positions("fillRect"), d \in Positions("drawImage") : f < d
             /\ Cardinality(Positions("drawImage")) = 1
             /\ Cardinality(Positions("fillRect")) <= 1

\* a jpeg conversion with a background filled the canvas and then drew
C12_Witness ==
    /\ entry = "convertFormat"
    /\ cpc = "resolved"
    /\ outputFormat = "jpeg"
    /\ backgroundColor # None
    /\ ops = <<"fillRect", "drawImage">>

\* C13: no exception leaves a conversion: the promise is settled exactly once,
\* a failed call (undecodable image, exception while drawing, no blob from the
\* encoder) is rejected with an Error that carries a message, and no call is
\* both resolved and rejected.
C13_SettledExactlyOnce ==
    /\ cpc # "escaped"
    /\ Settled => Len(settlements) = 1
    /\ ~Settled => (settlements = <<>> /\ outcome = Pending)
    /\ cpc = "rejected" =>
         (settlements = <<"reject">> /\ outcome.kind = "error" /\ outcome.message # "")
    /\ cpc = "resolved" => (settlements = <<"resolve">> /\ outcome.kind = "blob")

\* a convertFormat call ended rejected by an exception thrown while drawing
C13_Witness ==
    /\ entry = "convertFormat"
    /\ cpc = "rejected"
    /\ outcome = Failure(DrawFailed)
    /\ ops = <<"fillRect">>

\* C14: when a convertFormat call completes, successfully or not, every
\* temporary resource it acquired is released: no object URL created for the
\* input is left unrevoked.
C14_ResourcesReleased ==
    (entry = "convertFormat" /\ Settled) => objectURLs = 0

----------------------------------------------------------------------------
(* Double arithmetic of compressImage: quality -= 0.1 and quality <= 0.1 *)

\* b^e mod n
RECURSIVE PowMod(_, _, _)
PowMod(b, e, n) ==
    IF e = 0 THEN 1 % n
    ELSE LET h == PowMod(b, e \div 2, n)
         IN  IF e % 2 = 0 THEN (h * h) % n ELSE (((h * h) % n) * b) % n

\* (x.t * 2^56 + x.d) mod n, the numerator of x modulo n
NumeratorMod(x, n) == (((x.t % n) * PowMod(2, 56, n)) + (x.d % n)) % n

\* The spacing of the doubles around x, in units of 2^-56 / 10: 2^-53 in
\* [1/2, 1), 2^-54 in [1/4, 1/2), 2^-55 in [1/8, 1/4), 2^-56 or finer below
\* (every multiple of 2^-56 under 1/8 is a double).
Spacing(x) ==
    IF x.t > 5 \/ (x.t = 5 /\ x.d >= 0) THEN 80
    ELSE IF x.t >= 3 THEN 40
    ELSE IF x.t >= 2 THEN 20
    ELSE 10

\* x rounded to the nearest double, ties to the even one
RoundToDouble(x) ==
    LET g == Spacing(x)
        r == NumeratorMod(x, 2 * g)
        rem == r % g
        down == Dbl(x.t, x.d - rem)
        up == Dbl(x.t, x.d + (g - rem))
    IN  IF rem = 0 THEN x
        ELSE IF 2 * rem < g THEN down
        ELSE IF 2 * rem > g THEN up
        ELSE IF r - rem = 0 THEN down ELSE up

\* a - b in double arithmetic
Minus(a, b) == RoundToDouble(Dbl(a.t - b.t, a.d - b.d))

\* a <= b
Leq(a, b) == a.t < b.t \/ (a.t = b.t /\ a.d <= b.d)

----------------------------------------------------------------------------
(* ImageConverter.compressImage *)

\* `maxIterations = 10`
DefaultMaxIterations == 10

\* the size in bytes of a blob of n kilobytes
BlobBytes(n) == n * 1024

\* one convertFormat(file, 'jpeg', { quality }) call, just made: `final` tells
\* the call after the loop from the calls in it
Conversion(q, final) == [quality |-> q, final |-> final, state |-> "pending", size |-> 0]

\* A variant of MeetsTarget with a strict comparison.
MeetsTargetStrictly(size) == size < targetSizeKB * 1024

\* compressed.size <= targetSizeKB * 1024
MeetsTarget(size) == size <= targetSizeKB * 1024

\* A variant of LoopAdvance without the test that leaves the loop.
LoopAdvanceNoBreak(q, it) ==
    [quality |-> Minus(q, Tenth), break |-> FALSE, iteration |-> it + 1]

\* A variant of LoopAdvance whose iteration counter is never incremented.
LoopAdvanceNoCount(q, it) ==
    LET next == Minus(q, Tenth)
    IN  [quality |-> next, break |-> Leq(next, Tenth), iteration |-> it]

\* A variant of LoopAdvance that, instead of leaving the loop, clamps the
\* quality to 0.1 and tries again without counting the iteration.
LoopAdvanceClampAndRetry(q, it) ==
    LET next == Minus(q, Tenth)
    IN  IF Leq(next, Tenth)
        THEN [quality |-> Tenth, break |-> FALSE, iteration |-> it]
        ELSE [quality |-> next, break |-> FALSE, iteration |-> it + 1]

\* quality -= 0.1; if (quality <= 0.1) break; iteration++;
LoopAdvance(q, it) ==
    LET next == Minus(q, Tenth)
    IN  IF Leq(next, Tenth)
        THEN [quality |-> next, break |-> TRUE, iteration |-> it]
        ELSE [quality |-> next, break |-> FALSE, iteration |-> it + 1]

\* The conversion the code starts next when it reaches the loop test with
\* quality q and iteration it, having left the loop by break or not: another
\* one in the loop, or the one after the loop at quality 0.1.
NextConversion(q, it, broke) ==
    IF ~broke /\ it < maxIterations THEN Conversion(q, FALSE) ELSE Conversion(Tenth, TRUE)

\* the position of a call that has just started conversion c
Awaiting(c) == IF c.final THEN "awaitFinal" ELSE "awaitLoop"

\* the arguments a call of compressImage may be given
CompressInit ==
    /\ BatchIdle
    /\ ConvertIdle /\ LoaderIdle /\ RunIdle /\ EscapeIdle
    /\ NameIdle
    /\ fileDecodes \in BOOLEAN
    /\ targetSizeKB \in 0..MaxTargetKB
    /\ maxIterations \in (0..MaxIterationsArg) \cup {DefaultMaxIterations}
    /\ curQuality = InitialQuality
    /\ iteration = 0
    /\ zpc = "idle"
    /\ conversions = <<>>
    /\ returned = 0

\* compressImage(file, targetSizeKB, maxIterations) up to its first await:
\* quality = 0.8, iteration = 0, the loop test, and the first convertFormat call
CompressCall ==
    /\ zpc = "idle"
    /\ Len(conversions) < MaxConversions
    /\ LET c == NextConversion(InitialQuality, 0, FALSE)
       IN  /\ conversions' = Append(conversions, c)
           /\ zpc' = Awaiting(c)
    /\ UNCHANGED <<batchVars, convertVars, nameVars, fileDecodes, targetSizeKB, maxIterations,
                   curQuality, iteration, returned, escapeVars, runVars, loaderVars>>

\* The conversion awaited in the loop resolves with a blob.  If the blob meets
\* the target it is returned.  Otherwise the quality is lowered, the loop is
\* left or continued, and the next conversion is started.
LoopConversionResolves ==
    /\ zpc = "awaitLoop"
    /\ fileDecodes
    /\ \E n \in 1..MaxBlobKB :
         LET k == Len(conversions)
             done == [conversions EXCEPT ![k].state = "ok", ![k].size = BlobBytes(n)]
             adv == LoopAdvance(curQuality, iteration)
             c == NextConversion(adv.quality, adv.iteration, adv.break)
         IN  IF MeetsTarget(BlobBytes(n))
             THEN /\ conversions' = done
                  /\ returned' = k
                  /\ zpc' = "returned"
                  /\ UNCHANGED <<curQuality, iteration>>
             ELSE /\ k < MaxConversions
                  /\ curQuality' = adv.quality
                  /\ iteration' = adv.iteration
                  /\ conversions' = Append(done, c)
                  /\ zpc' = Awaiting(c)
                  /\ UNCHANGED returned
    /\ UNCHANGED <<batchVars, convertVars, nameVars, fileDecodes, targetSizeKB, maxIterations, escapeVars, runVars, loaderVars>>

\* The conversion awaited in the loop rejects (the file does not decode, or
\* the encoder yields no blob): the await throws and compressImage rejects.
LoopConversionRejects ==
    /\ zpc = "awaitLoop"
    /\ conversions' = [conversions EXCEPT ![Len(conversions)].state = "failed"]
    /\ zpc' = "rejected"
    /\ UNCHANGED <<batchVars, convertVars, nameVars, fileDecodes, targetSizeKB, maxIterations,
                   curQuality, iteration, returned, escapeVars, runVars, loaderVars>>

\* The conversion started after the loop resolves: its blob is the result of
\* compressImage, whatever its size.
FinalConversionResolves ==
    /\ zpc = "awaitFinal"
    /\ fileDecodes
    /\ \E n \in 1..MaxBlobKB :
         conversions' = [conversions EXCEPT ![Len(conversions)].state = "ok",
                                            ![Len(conversions)].size = BlobBytes(n)]
    /\ returned' = Len(conversions)
    /\ zpc' = "returned"
    /\ UNCHANGED <<batchVars, convertVars, nameVars, fileDecodes, targetSizeKB, maxIterations,
                   curQuality, iteration, escapeVars, runVars, loaderVars>>

\* The conversion started after the loop rejects, and compressImage with it.
FinalConversionRejects ==
    /\ zpc = "awaitFinal"
    /\ conversions' = [conversions EXCEPT ![Len(conversions)].state = "failed"]
    /\ zpc' = "rejected"
    /\ UNCHANGED <<batchVars, convertVars, nameVars, fileDecodes, targetSizeKB, maxIterations,
                   curQuality, iteration, returned, escapeVars, runVars, loaderVars>>

NextCompress ==
    \/ CompressCall
    \/ LoopConversionResolves
    \/ LoopConversionRejects
    \/ FinalConversionResolves
    \/ FinalConversionRejects

SpecCompress == CompressInit /\ [][NextCompress]_vars

\* The steps a call cannot fail to take: the code up to the first await runs,
\* and every conversion that was started settles, by resolving when the file
\* decodes and by rejecting when it does not.
Settles ==
    \/ CompressCall
    \/ LoopConversionResolves
    \/ FinalConversionResolves
    \/ ~fileDecodes /\ LoopConversionRejects
    \/ ~fileDecodes /\ FinalConversionRejects

SpecCompressFair == SpecCompress /\ WF_vars(Settles)

----------------------------------------------------------------------------
(* Properties of compressImage, checked under SpecCompress *)

\* conversion k resolved with a blob at or under the target size
AtOrUnderTarget(k) ==
    conversions[k].state = "ok" /\ conversions[k].size <= targetSizeKB * 1024

\* a blob at or under the target ends the call: it is the last conversion, and
\* it is what the call returns
FirstFitReturned ==
    \A k \in 1..Len(conversions) :
        AtOrUnderTarget(k) => (k = Len(conversions) /\ zpc = "returned" /\ returned = k)

\* C15 (as stated): the first conversion of compressImage is made at quality
\* 0.8, and the first conversion result at or under the target is returned
\* with no conversion after it.
C15_FirstConversionAtInitialQuality ==
    /\ conversions # <<>> => conversions[1].quality = InitialQuality
    /\ FirstFitReturned

\* C15 (amended): for maxIterations >= 1 the first conversion of compressImage
\* is made at quality 0.8 (with maxIterations = 0 the only conversion is made
\* at 0.1); the first conversion result at or under the target is returned
\* with no conversion after it.
C15_FirstFitReturnedAtOnce ==
    /\ (conversions # <<>> /\ maxIterations >= 1) => conversions[1].quality = InitialQuality
    /\ (conversions # <<>> /\ maxIterations < 1) =>
         (conversions[1].quality = Tenth /\ Len(conversions) = 1)
    /\ FirstFitReturned

\* the second conversion met the target and was returned
C15_Witness ==
    /\ zpc = "returned"
    /\ Len(conversions) = 2
    /\ returned = 2
    /\ conversions[1].quality = InitialQuality
    /\ ~AtOrUnderTarget(1)
    /\ ~conversions[2].final
    /\ conversions[2].size = targetSizeKB * 1024

\* C16 (as stated): for maxIterations >= 1 a call makes at most maxIterations
\* conversions, counting every conversion it starts.
C16_AtMostMaxIterations ==
    maxIterations >= 1 => Len(conversions) <= maxIterations

\* C16 (amended): for maxIterations >= 1 a call makes at most
\* maxIterations + 1 conversions: up to maxIterations in the loop and one
\* after it.
C16_AtMostMaxIterationsPlusOne ==
    maxIterations >= 1 => Len(conversions) <= maxIterations + 1

\* a call with maxIterations = 2 made three conversions
C16_Witness ==
    /\ maxIterations = 2
    /\ Len(conversions) = 3
    /\ zpc = "returned"

\* C17: when no conversion of the loop met the target, what is returned is the
\* result of the conversion after the loop, made at quality 0.1, whatever its
\* size; and the loop stops as soon as the decremented quality is 0.1 or
\* below: no conversion of the loop is made at such a quality, and a
\* conversion whose quality decrements to 0.1 or below is followed only by
\* the conversion after the loop.
C17_FinalConversionAtTenth ==
    /\ (zpc = "returned" /\ \A k \in 1..Len(conversions) :
                               ~conversions[k].final => ~AtOrUnderTarget(k)) =>
         /\ returned = Len(conversions)
         /\ conversions[returned].final
         /\ conversions[returned].quality = Tenth
    /\ \A k \in 1..Len(conversions) :
         /\ conversions[k].final => (conversions[k].quality = Tenth /\ k = Len(conversions))
         /\ ~conversions[k].final => ~Leq(conversions[k].quality, Tenth)
         /\ (k < Len(conversions) /\ Leq(Minus(conversions[k].quality, Tenth), Tenth)) =>
              conversions[k + 1].final

\* a call ran the loop until the quality gave out and returned the oversized
\* result of the conversion at 0.1; in double arithmetic the eighth conversion
\* of the loop is made at 0.10000000000000014
C17_Witness ==
    /\ zpc = "returned"
    /\ Len(conversions) = 9
    /\ conversions[8].quality = Dbl(1, 104)
    /\ ~conversions[8].final
    /\ returned = 9
    /\ conversions[9].quality = Tenth
    /\ ~AtOrUnderTarget(9)

\* C18: compressImage never ends in an error: the call does not reject.
C18_NeverRejects == zpc # "rejected"

\* the call has completed
Completed == zpc \in {"returned", "rejected"}

\* C19: provided every conversion it starts completes, compressImage
\* terminates, whatever the target size.
C19_Terminates == <>Completed

\* a call with a target no blob can meet has returned
C19_Witness ==
    /\ zpc = "returned"
    /\ targetSizeKB = 0
    /\ maxIterations = DefaultMaxIterations
    /\ \A k \in 1..Len(conversions) : ~AtOrUnderTarget(k)

\* C30: within one compressImage call the qualities of successive
\* conversions are strictly decreasing, each is at least 0.1 and at most 0.8,
\* and only the last conversion can be made at 0.1.
C30_QualitiesDecreaseToTenth ==
    \A k \in 1..Len(conversions) :
        /\ Leq(Tenth, conversions[k].quality)
        /\ Leq(conversions[k].quality, InitialQuality)
        /\ k < Len(conversions) => ~Leq(conversions[k].quality, conversions[k + 1].quality)
        /\ conversions[k].quality = Tenth => k = Len(conversions)

\* a call went through the whole chain: the first conversion at 0.8, seven
\* more in the loop, each lower than the one before, and the last at 0.1
C30_Witness ==
    /\ Completed
    /\ Len(conversions) = 9
    /\ conversions[1].quality = InitialQuality
    /\ \A k \in 1..8 : ~Leq(conversions[k].quality, conversions[k + 1].quality)
    /\ conversions[9].quality = Tenth

----------------------------------------------------------------------------
(* FileConverter.generateOutputFileName and the loop body that calls it *)

\* the file names: character sequences of length 1..MaxNameLen
Names == UNION {[1..n -> NameChars] : n \in 1..MaxNameLen}

\* the positions of name at which the regular expression /\.[^/.]+$/ matches:
\* a "." followed, up to the end of the name, by one or more characters that
\* are neither "/" nor "."
ExtensionMatches(name) ==
    {p \in 1..Len(name) :
        /\ name[p] = "."
        /\ p < Len(name)
        /\ \A q \in (p + 1)..Len(name) : name[q] \notin {"/", "."}}

\* originalName.replace(/\.[^/.]+$/, ''): the leftmost match is removed, the
\* name is kept whole when there is none
StripExtension(name) ==
    LET ms == ExtensionMatches(name)
    IN  IF ms = {} THEN name
        ELSE SubSeq(name, 1, (CHOOSE p \in ms : \A q \in ms : p <= q) - 1)

\* generateOutputFileName(originalName) with the select's value being format
GenerateOutputFileName(name, format) ==
    LET nameWithoutExt == StripExtension(name)
    IN  IF format = <<"h", "t", "m", "l">> THEN nameWithoutExt \o <<".", "h", "t", "m", "l">>
        ELSE IF format = <<"j", "s", "o", "n">> THEN nameWithoutExt \o <<".", "j", "s", "o", "n">>
        ELSE IF format = <<"m", "d">> THEN nameWithoutExt \o <<".", "m", "d">>
        ELSE nameWithoutExt \o <<".">> \o format

\* one uploaded file, and a format selected (the convert button is disabled
\* without one)
NameInit ==
    /\ BatchIdle
    /\ ConvertIdle /\ LoaderIdle /\ RunIdle /\ EscapeIdle
    /\ CompressIdle
    /\ originalName \in Names
    /\ selectValue \in Formats
    /\ requested = None
    /\ npc = "idle"
    /\ outputName = None

\* convertFile(file) up to the await of the conversion: the requested format
\* is read from the select
ConvertFileCall ==
    /\ npc = "idle"
    /\ selectValue # <<>>
    /\ requested' = Some(selectValue)
    /\ npc' = "converting"
    /\ UNCHANGED <<batchVars, convertVars, compressVars, originalName, selectValue, outputName, escapeVars, runVars, loaderVars>>

\* The user picks an option of the select; nothing disables the select while
\* a conversion runs.
SelectFormat ==
    /\ npc \in {"idle", "converting"}
    /\ \E v \in Formats \cup {<<>>} :
         /\ v # selectValue
         /\ selectValue' = v
    /\ UNCHANGED <<batchVars, convertVars, compressVars, originalName, requested, npc, outputName, escapeVars, runVars, loaderVars>>

\* The conversion resolves: the converted file is named by
\* generateOutputFileName, which reads the select again.
ConvertFileResolves ==
    /\ npc = "converting"
    /\ outputName' = Some(GenerateOutputFileName(originalName, selectValue))
    /\ npc' = "named"
    /\ UNCHANGED <<batchVars, convertVars, compressVars, originalName, selectValue, requested, escapeVars, runVars, loaderVars>>

\* The conversion rejects: the file gets an error report, not an output name.
ConvertFileRejects ==
    /\ npc = "converting"
    /\ npc' = "failed"
    /\ UNCHANGED <<batchVars, convertVars, compressVars, originalName, selectValue, requested,
                   outputName, escapeVars, runVars, loaderVars>>

NextName ==
    \/ ConvertFileCall
    \/ SelectFormat
    \/ ConvertFileResolves
    \/ ConvertFileRejects

SpecName == NameInit /\ [][NextName]_vars

----------------------------------------------------------------------------
(* Properties of the output name, checked under SpecName *)

\* the positions of the dots of name
Dots(name) == {p \in 1..Len(name) : name[p] = "."}

\* the base name of name: what precedes its last dot, the whole name when it
\* has no dot
BaseName(name) ==
    IF Dots(name) = {} THEN name
    ELSE SubSeq(name, 1, (CHOOSE p \in Dots(name) : \A q \in Dots(name) : q <= p) - 1)

\* C20: the output name of a successful conversion is the base name of the
\* input name, a dot, and the extension of the requested output format, for
\* every input name.
C20_OutputNameIsBaseDotExt ==
    npc = "named" =>
        outputName = Some(BaseName(originalName) \o <<".">> \o requested[1])

----------------------------------------------------------------------------
(* DocumentConverter.escapeXml *)

\* the strings of length up to MaxTextLen
Texts == UNION {[1..n -> TextChars] : n \in 0..MaxTextLen}

\* the arguments of a call: a string, null or undefined
TextArguments ==
    {[kind |-> "string", chars |-> t] : t \in Texts}
        \cup {[kind |-> k, chars |-> <<>>] : k \in {"null", "undefined"}}

\* !text: null, undefined and the empty string are falsy
Falsy(arg) == arg.kind # "string" \/ arg.chars = <<>>

\* str.replace(/c/g, replacement): every occurrence of the character c is
\* replaced, from left to right, and the replacement is not scanned again
RECURSIVE ReplaceAll(_, _, _)
ReplaceAll(str, c, replacement) ==
    IF str = <<>> THEN <<>>
    ELSE (IF Head(str) = c THEN replacement ELSE <<Head(str)>>)
             \o ReplaceAll(Tail(str), c, replacement)

\* escapeXml(text): the five replacements in the code's order
EscapeXml(arg) ==
    IF Falsy(arg) THEN <<>>
    ELSE ReplaceAll(
           ReplaceAll(
             ReplaceAll(
               ReplaceAll(
                 ReplaceAll(arg.chars, "&", <<"&", "a", "m", "p", ";">>),
                 "<", <<"&", "l", "t", ";">>),
               ">", <<"&", "g", "t", ";">>),
             "\"", <<"&", "q", "u", "o", "t", ";">>),
           "'", <<"&", "a", "p", "o", "s", ";">>)

EscapeInit ==
    /\ BatchIdle
    /\ ConvertIdle /\ LoaderIdle /\ RunIdle
    /\ CompressIdle
    /\ NameIdle
    /\ text \in TextArguments
    /\ escaped = <<>>
    /\ epc = "idle"

\* DocumentConverter.escapeXml(text)
EscapeXmlCall ==
    /\ epc = "idle"
    /\ escaped' = EscapeXml(text)
    /\ epc' = "returned"
    /\ UNCHANGED <<batchVars, convertVars, compressVars, nameVars, text, runVars, loaderVars>>

NextEscape == EscapeXmlCall

SpecEscape == EscapeInit /\ [][NextEscape]_vars

----------------------------------------------------------------------------
(* Properties of escapeXml, checked under SpecEscape *)

\* the entity a character is to be replaced by, the character itself when it
\* is none of the five; the apostrophe's entity is given as a parameter
Entity(c, apostrophe) ==
    CASE c = "&" -> <<"&", "a", "m", "p", ";">>
      [] c = "<" -> <<"&", "l", "t", ";">>
      [] c = ">" -> <<"&", "g", "t", ";">>
      [] c = "\"" -> <<"&", "q", "u", "o", "t", ";">>
      [] c = "'" -> apostrophe
      [] OTHER -> <<c>>

\* str with every character replaced by its entity
RECURSIVE Entities(_, _)
Entities(str, apostrophe) ==
    IF str = <<>> THEN <<>>
    ELSE Entity(Head(str), apostrophe) \o Entities(Tail(str), apostrophe)

\* C23: escapeXml maps every string to the string in which & is replaced by
\* &amp;, < by &lt;, > by &gt;, the double quote by &quot; and the apostrophe
\* by &#39;, all other characters unchanged, and maps the empty string, null
\* and undefined to the empty string.
C23_EscapesFiveCharacters ==
    epc = "returned" =>
        escaped = IF text.kind = "string"
                  THEN Entities(text.chars, <<"&", "#", "3", "9", ";">>)
                  ELSE <<>>

----------------------------------------------------------------------------
(* FileConverter.startConversion and the events that interleave with it.      *)
(* The loop is cut at `await this.convertFile(file)`; the user's events       *)
(* (upload, format choice, remove, reset, click) run between those points.    *)

\* updateConvertButton(): the value it gives convertBtn.disabled
ButtonDisabled(uploaded, format, converting) ==
    Len(uploaded) = 0 \/ format # "chosen" \/ converting

\* array.splice(index, 1), index counted from 0
Splice(array, index) ==
    [k \in 1..(Len(array) - 1) |-> IF k <= index THEN array[k] ELSE array[k + 1]]

\* A variant of Finally that skips the finally block after a throw.
FinallySkippedAfterThrow(run, converted) ==
    IF run.threw
    THEN [run EXCEPT !.pc = "done", !.atEnd = converted]
    ELSE [run EXCEPT !.pc = "done", !.atEnd = converted, !.finallyRan = TRUE]

\* the run leaves the try statement, by completion or through the outer
\* catch: the finally block runs
Finally(run, converted) ==
    [run EXCEPT !.pc = "done", !.atEnd = converted, !.finallyRan = TRUE]

\* The run reaches the loop test with index k (0-based): either it starts the
\* conversion of this.uploadedFiles[k] and suspends at the await, or it leaves
\* the loop and ends.  convertFile rejects at once when there is no
\* #outputFormat element to read.
LoopTest(run, k, converted) ==
    IF k < Len(uploadedFiles)
    THEN [run EXCEPT !.i = k, !.file = uploadedFiles[k + 1], !.pc = "await",
                     !.canResolve = (formatState # "absent")]
    ELSE Finally([run EXCEPT !.i = k], converted)

\* the run record of an invocation that passed the guard
NewRun ==
    [atStart |-> uploadedFiles, i |-> 0, file |-> "", pc |-> "start",
     canResolve |-> FALSE, atEnd |-> <<>>, threw |-> FALSE, finallyRan |-> FALSE]

RunInit ==
    /\ BatchIdle
    /\ ConvertIdle /\ LoaderIdle
    /\ CompressIdle
    /\ NameIdle
    /\ EscapeIdle
    /\ uploadedFiles = <<>>
    /\ convertedFiles = <<>>
    /\ isConverting = FALSE
    /\ formatState = "absent"
    /\ convertBtnDisabled = TRUE
    /\ runs = <<>>
    /\ uploads = 0

\* processFiles(files) with at least one valid file: the list is replaced, the
\* file list and the conversion options are rebuilt (the select shows its
\* placeholder) and the button is updated
ProcessFiles ==
    /\ uploads < MaxUploads
    /\ uploads' = uploads + 1
    /\ uploadedFiles' \in UploadLists
    /\ formatState' = "empty"
    /\ convertBtnDisabled' = ButtonDisabled(uploadedFiles', "empty", isConverting)
    /\ UNCHANGED <<batchVars, convertVars, compressVars, nameVars, escapeVars,
                   convertedFiles, isConverting, runs, loaderVars>>

\* the user picks an option of the #outputFormat select: the 'change' listener
\* calls updateConvertButton
ChooseFormat ==
    /\ formatState # "absent"
    /\ \E v \in {"empty", "chosen"} :
         /\ v # formatState
         /\ formatState' = v
         /\ convertBtnDisabled' = ButtonDisabled(uploadedFiles, v, isConverting)
    /\ UNCHANGED <<batchVars, convertVars, compressVars, nameVars, escapeVars,
                   uploadedFiles, convertedFiles, isConverting, runs, uploads, loaderVars>>

\* removeFile(index), from the remove button of a listed file
RemoveFile ==
    /\ \E index \in 0..(Len(uploadedFiles) - 1) :
         /\ uploadedFiles' = Splice(uploadedFiles, index)
         /\ convertBtnDisabled' = ButtonDisabled(uploadedFiles', formatState, isConverting)
    /\ UNCHANGED <<batchVars, convertVars, compressVars, nameVars, escapeVars,
                   convertedFiles, isConverting, formatState, runs, uploads, loaderVars>>

\* reset(), from the reset button or from switchFileType (a click on a type
\* tab): the lists are emptied, isConverting is cleared, the options are
\* removed and the button is updated
Reset ==
    /\ uploadedFiles # <<>> \/ isConverting \/ formatState # "absent" \/ convertedFiles # <<>>
    /\ uploadedFiles' = <<>>
    /\ convertedFiles' = <<>>
    /\ isConverting' = FALSE
    /\ formatState' = "absent"
    /\ convertBtnDisabled' = ButtonDisabled(<<>>, "absent", FALSE)
    /\ UNCHANGED <<batchVars, convertVars, compressVars, nameVars, escapeVars, runs, uploads, loaderVars>>

\* A click on the convert button (a disabled button receives none):
\* startConversion() up to its first await
ClickConvert ==
    /\ ~convertBtnDisabled
    /\ Len(runs) < MaxRuns
    /\ IF isConverting
       THEN UNCHANGED <<convertedFiles, isConverting, convertBtnDisabled, runs>>
       ELSE LET run == LoopTest(NewRun, 0, <<>>)
            IN  /\ convertedFiles' = <<>>
                /\ runs' = Append(runs, run)
                /\ isConverting' = ~run.finallyRan
                /\ convertBtnDisabled' =
                       IF run.finallyRan
                       THEN ButtonDisabled(uploadedFiles, formatState, FALSE)
                       ELSE TRUE
    /\ UNCHANGED <<batchVars, convertVars, compressVars, nameVars, escapeVars,
                   uploadedFiles, formatState, uploads, loaderVars>>

\* The conversion run r awaits settles and the run goes on to its next await
\* or to its end.  result is "resolved", "rejected" (with an Error) or
\* "rejectedWithoutError" (the reason has no message to read).
ConversionSettles(r, result) ==
    /\ r \in 1..Len(runs)
    /\ runs[r].pc = "await"
    /\ result = "resolved" => runs[r].canResolve
    /\ LET run == runs[r]
           \* generateOutputFileName throws when the select is gone, and the
           \* inner catch then records an error report
           item == [file |-> run.file,
                     isError |-> (result = "rejected" \/ formatState = "absent")]
           pushed == Append(convertedFiles, item)
           next == IF result = "rejectedWithoutError"
                   \* createErrorReport throws on error.message: outer catch
                   THEN Finally([run EXCEPT !.threw = TRUE], convertedFiles)
                   ELSE LoopTest(run, run.i + 1, pushed)
       IN  /\ convertedFiles' = IF result = "rejectedWithoutError" THEN convertedFiles ELSE pushed
           /\ runs' = [runs EXCEPT ![r] = next]
           /\ isConverting' = IF next.finallyRan THEN FALSE ELSE isConverting
           /\ convertBtnDisabled' =
                  IF next.finallyRan
                  THEN ButtonDisabled(uploadedFiles, formatState, FALSE)
                  ELSE convertBtnDisabled
    /\ UNCHANGED <<batchVars, convertVars, compressVars, nameVars, escapeVars,
                   uploadedFiles, formatState, uploads, loaderVars>>

\* a conversion that is awaited settles
SomeConversionSettles ==
    \E r \in 1..MaxRuns, result \in {"resolved", "rejected", "rejectedWithoutError"} :
        ConversionSettles(r, result)

NextRun ==
    \/ ProcessFiles
    \/ ChooseFormat
    \/ RemoveFile
    \/ Reset
    \/ ClickConvert
    \/ SomeConversionSettles

SpecRun == RunInit /\ [][NextRun]_vars

\* every conversion that is awaited eventually settles
SpecRunFair ==
    /\ SpecRun
    /\ \A r \in 1..MaxRuns :
         WF_vars(\E result \in {"resolved", "rejected", "rejectedWithoutError"} :
                     ConversionSettles(r, result))

----------------------------------------------------------------------------
(* Properties of startConversion, checked under SpecRun and SpecRunFair *)

\* the files of a list of converted-file entries, in order
EntryFiles(entries) == [k \in 1..Len(entries) |-> entries[k].file]

\* C24: when a startConversion run completes, convertedFiles holds exactly one
\* entry for each file that was in uploadedFiles when the run started, in the
\* same order, whatever removeFile, reset and processFiles events happened at
\* the run's await points.
C24_OneEntryPerStartingFile ==
    \A r \in 1..Len(runs) :
        runs[r].pc = "done" => EntryFiles(runs[r].atEnd) = runs[r].atStart

\* the runs suspended at their await
ActiveRuns == {r \in 1..Len(runs) : runs[r].pc = "await"}

\* C25: at most one startConversion loop is active on a FileConverter at any
\* time.
C25_AtMostOneActiveRun == Cardinality(ActiveRuns) <= 1

\* run r has passed the guard and is in its loop
InLoop(r) == r <= Len(runs) /\ runs[r].pc = "await"

\* run r has ended and its finally block has run
Released(r) == r <= Len(runs) /\ runs[r].pc = "done" /\ runs[r].finallyRan

\* C26: every startConversion run that set isConverting to true eventually
\* runs its finally block, whether it completed or an error was thrown inside
\* it, and the step that ends a run sets isConverting to false and
\* re-evaluates the convert button.
C26_RunReleasesIsConverting ==
    /\ \A r \in 1..MaxRuns : InLoop(r) ~> Released(r)
    /\ [][\A r \in 1..MaxRuns :
            (InLoop(r) /\ ~InLoop(r)') =>
                /\ Released(r)'
                /\ isConverting' = FALSE
                /\ convertBtnDisabled' = ButtonDisabled(uploadedFiles', formatState', FALSE)]_vars

\* a run ended through the outer catch and released isConverting
C26_Witness ==
    \E r \in 1..Len(runs) :
        /\ runs[r].threw
        /\ Released(r)
        /\ isConverting = FALSE

----------------------------------------------------------------------------
(* LibraryLoader.loadLibrary and loadScript *)
(***************************************************************************)
(* A task (a loadLibrary call up to its first await, a script's load or    *)
(* error event, the callback of the 10 s timer) runs to completion and is  *)
(* followed by the microtasks it queued before any other task starts.      *)
(* Settling a promise queues the continuations of the calls awaiting it in *)
(* the order they began to await: the call that created the promise first  *)
(* (it awaits at line 291 in the task that creates the promise), then the  *)
(* calls that joined at line 272.  An action is one task together with     *)
(* these continuations.                                                    *)
(***************************************************************************)

\* loadingPromises holds no promise for a name
NoPromise == 0

IsLoadingIgnored(name) == FALSE

\* this.loadingPromises.has(libraryName)
IsLoading(name) == loadingPromises[name] # NoPromise

DeleteAfterSuccessOnly(name, settledAs) ==
    IF settledAs = "fulfilled"
    THEN [loadingPromises EXCEPT ![name] = NoPromise]
    ELSE loadingPromises

\* this.loadingPromises.delete(libraryName) in the continuation of the call
\* that started the load: after the await on success, in the catch on failure
DeleteAfter(name, settledAs) == [loadingPromises EXCEPT ![name] = NoPromise]

\* The continuation of a call awaiting promise p once p is settled; `loaded`
\* is loadedLibraries at that moment.  The call that started the load returns
\* true or throws its own Error; a call that joined returns the value the
\* promise was resolved with (loadScript calls resolve() without one) or
\* rethrows loadScript's error.
Continue(call, p, settledAs, loaded) ==
    IF call.promise # p \/ call.pc \notin {"awaitLoad", "awaitJoin"}
    THEN call
    ELSE IF settledAs = "fulfilled"
         THEN [call EXCEPT !.pc = "returned",
                           !.value = IF call.pc = "awaitLoad" THEN "true" ELSE "undefined",
                           !.inLoaded = call.name \in loaded]
         ELSE [call EXCEPT !.pc = "threw",
                           !.value = IF call.pc = "awaitLoad" THEN "LoadFailed" ELSE "ScriptError"]

\* Promise p settles: the continuations of the calls awaiting it run
Settle(p, settledAs) ==
    /\ loadedLibraries' = IF settledAs = "fulfilled"
                          THEN loadedLibraries \cup {scripts[p].name}
                          ELSE loadedLibraries
    /\ loadingPromises' = DeleteAfter(scripts[p].name, settledAs)
    /\ libraryCalls' = [k \in 1..Len(libraryCalls) |->
                           Continue(libraryCalls[k], p, settledAs, loadedLibraries')]

\* a loadLibrary call that completed at once
CallCompleted(name, pc, value, loaded) ==
    [name |-> name, pc |-> pc, promise |-> NoPromise, value |-> value,
     inLoaded |-> name \in loaded]

\* a loadLibrary call suspended on promise p
CallAwaiting(name, pc, p) ==
    [name |-> name, pc |-> pc, promise |-> p, value |-> "none", inLoaded |-> FALSE]

\* A LibraryLoader as constructed; the page may have set some of the
\* libraries' globals with script tags of its own.
LoaderInit ==
    /\ BatchIdle
    /\ ConvertIdle
    /\ CompressIdle
    /\ NameIdle
    /\ EscapeIdle
    /\ RunIdle
    /\ loadedLibraries = {}
    /\ loadingPromises = [n \in CallNames |-> NoPromise]
    /\ scripts = <<>>
    /\ windowGlobals \in SUBSET LibraryNames
    /\ libraryCalls = <<>>

\* loadLibrary(libraryName) up to its return, its throw or its first await
LoadLibraryCall(name) ==
    /\ Len(libraryCalls) < MaxCalls
    /\ IF name \in loadedLibraries
       THEN /\ libraryCalls' = Append(libraryCalls, CallCompleted(name, "returned", "true", loadedLibraries))
            /\ UNCHANGED <<loadedLibraries, loadingPromises, scripts>>
       ELSE IF IsLoading(name)
       THEN LET p == loadingPromises[name]
                joined == CallAwaiting(name, "awaitJoin", p)
            IN /\ libraryCalls' = Append(libraryCalls,
                      IF scripts[p].promise = "pending"
                      THEN joined
                      ELSE Continue(joined, p, scripts[p].promise, loadedLibraries))
               /\ UNCHANGED <<loadedLibraries, loadingPromises, scripts>>
       ELSE IF name \notin LibraryNames
       THEN /\ libraryCalls' = Append(libraryCalls, CallCompleted(name, "threw", "UnknownLibrary", loadedLibraries))
            /\ UNCHANGED <<loadedLibraries, loadingPromises, scripts>>
       ELSE IF name \in windowGlobals
       THEN /\ loadedLibraries' = loadedLibraries \cup {name}
            /\ libraryCalls' = Append(libraryCalls, CallCompleted(name, "returned", "true", loadedLibraries'))
            /\ UNCHANGED <<loadingPromises, scripts>>
       ELSE /\ scripts' = Append(scripts, [name |-> name, promise |-> "pending",
                                           element |-> "loading", timer |-> TRUE])
            /\ loadingPromises' = [loadingPromises EXCEPT ![name] = Len(scripts) + 1]
            /\ libraryCalls' = Append(libraryCalls, CallAwaiting(name, "awaitLoad", Len(scripts) + 1))
            /\ UNCHANGED loadedLibraries
    /\ UNCHANGED <<batchVars, convertVars, compressVars, nameVars, escapeVars, runVars, windowGlobals>>

\* script.onload: the script has run, and has set its global or not
ScriptOnload(p, defines) ==
    /\ p \in 1..Len(scripts)
    /\ scripts[p].element = "loading"
    /\ windowGlobals' = IF defines THEN windowGlobals \cup {scripts[p].name} ELSE windowGlobals
    /\ IF scripts[p].promise = "pending"
       THEN LET settledAs == IF scripts[p].name \in windowGlobals' THEN "fulfilled" ELSE "rejected"
            IN /\ scripts' = [scripts EXCEPT ![p].element = "loaded", ![p].promise = settledAs]
               /\ Settle(p, settledAs)
       ELSE /\ scripts' = [scripts EXCEPT ![p].element = "loaded"]
            /\ UNCHANGED <<loadedLibraries, loadingPromises, libraryCalls>>
    /\ UNCHANGED <<batchVars, convertVars, compressVars, nameVars, escapeVars, runVars>>

\* script.onerror
ScriptOnerror(p) ==
    /\ p \in 1..Len(scripts)
    /\ scripts[p].element = "loading"
    /\ IF scripts[p].promise = "pending"
       THEN /\ scripts' = [scripts EXCEPT ![p].element = "failed", ![p].promise = "rejected"]
            /\ Settle(p, "rejected")
       ELSE /\ scripts' = [scripts EXCEPT ![p].element = "failed"]
            /\ UNCHANGED <<loadedLibraries, loadingPromises, libraryCalls>>
    /\ UNCHANGED <<batchVars, convertVars, compressVars, nameVars, escapeVars, runVars, windowGlobals>>

\* the setTimeout callback of loadScript, 10 s after the call
LoadTimeout(p) ==
    /\ p \in 1..Len(scripts)
    /\ scripts[p].timer
    /\ IF scripts[p].name \notin windowGlobals /\ scripts[p].promise = "pending"
       THEN /\ scripts' = [scripts EXCEPT ![p].timer = FALSE, ![p].promise = "rejected"]
            /\ Settle(p, "rejected")
       ELSE /\ scripts' = [scripts EXCEPT ![p].timer = FALSE]
            /\ UNCHANGED <<loadedLibraries, loadingPromises, libraryCalls>>
    /\ UNCHANGED <<batchVars, convertVars, compressVars, nameVars, escapeVars, runVars, windowGlobals>>

NextLoader ==
    \/ \E name \in CallNames : LoadLibraryCall(name)
    \/ \E p \in 1..MaxCalls, defines \in BOOLEAN : ScriptOnload(p, defines)
    \/ \E p \in 1..MaxCalls : ScriptOnerror(p)
    \/ \E p \in 1..MaxCalls : LoadTimeout(p)

SpecLoader == LoaderInit /\ [][NextLoader]_vars

\* the loadScript calls for a name whose promise is pending
InFlight(name) ==
    {p \in 1..Len(scripts) : scripts[p].name = name /\ scripts[p].promise = "pending"}

\* the step is the arrival of a loadLibrary call for `name`
Arrives(name) ==
    /\ Len(libraryCalls') = Len(libraryCalls) + 1
    /\ libraryCalls'[Len(libraryCalls')].name = name

C28_CompletedCallsReturnTrue ==
    \A k \in 1..Len(libraryCalls) :
        libraryCalls[k].pc = "returned" =>
            libraryCalls[k].value = "true" /\ libraryCalls[k].inLoaded

\* promise p was rejected in this step
Fails(p) ==
    /\ p \in 1..Len(scripts)
    /\ scripts[p].promise = "pending"
    /\ scripts'[p].promise = "rejected"

\* a load for `name` has failed
HasFailed(name) ==
    \E p \in 1..Len(scripts) : scripts[p].name = name /\ scripts[p].promise = "rejected"

\* C29: a name without a load in flight has no entry in loadingPromises; when
\* a load fails the name is left in neither loadingPromises nor
\* loadedLibraries; and a loadLibrary call arriving after a failed load does
\* not fail with it: with no load in flight, the name not loaded and its
\* global not set, it starts a new script load.
C29_NoEntryWithoutLoad ==
    /\ [](\A name \in CallNames : InFlight(name) = {} => ~IsLoading(name))
    /\ [][\A p \in 1..MaxCalls :
            Fails(p) => /\ loadingPromises'[scripts[p].name] = NoPromise
                        /\ scripts[p].name \notin loadedLibraries']_vars
    /\ [][\A name \in LibraryNames :
            (HasFailed(name) /\ Arrives(name)) =>
                /\ libraryCalls'[Len(libraryCalls')].pc # "threw"
                /\ (InFlight(name) = {} /\ name \notin loadedLibraries /\ name \notin windowGlobals)
                       => /\ Len(scripts') = Len(scripts) + 1
                          /\ libraryCalls'[Len(libraryCalls')].pc = "awaitLoad"]_vars

C29_Witness ==
    \E p, q \in 1..Len(scripts) :
        /\ p < q
        /\ scripts[p].name = scripts[q].name
        /\ scripts[p].promise = "rejected"
        /\ loadingPromises[scripts[q].name] = q

====
